---- MODULE Spec2Model ----
(***************************************************************************)
(* Directory-listing and thumbnail pipeline of flux (src/src/app.rs,       *)
(* src/src/utils.rs): FluxApp::update, FluxApp::load_path and the          *)
(* thumbnail stream that load_path spawns.                                 *)
(*                                                                         *)
(* File names are sequences of ASCII codes, so that to_lowercase, contains *)
(* and the byte-wise string comparison are computed, not assumed.          *)
(***************************************************************************)
EXTENDS Integers, Sequences, FiniteSets, TLC

VARIABLES
    fs,                \* the file system: location -> set of children
    load_id,           \* FluxApp.load_id (AtomicU64)
    loads,             \* history variable: number of load_path calls so far
    requested,         \* history variable: the path given to the last load_path
    current_path,      \* FluxApp.current_path
    history,           \* FluxApp.history
    forward_stack,     \* FluxApp.forward_stack
    files,             \* FluxApp.files, the displayed listing
    sort_by,           \* FluxApp.sort_by
    show_hidden,       \* FluxApp.show_hidden
    filter,            \* FluxApp.filter
    header_view,       \* FluxApp.header_view
    config,            \* FluxApp.config.ui
    current_icon_size, \* FluxApp.current_icon_size
    directory_monitor, \* FluxApp.directory_monitor
    inbox,             \* the component's input channel (sender.input)
    tasks,             \* thumbnail futures and blocking workers alive
    cache,             \* flux/thumbnails: canonical path -> content of its file
    calls,             \* history variable: the get_or_create_thumbnail calls
                       \* made one after the other by the cache runs
    trail              \* history variable: the GoBack and GoForward messages
                       \* handled since the last Navigate (the last two), each
                       \* with the paths and stacks it found

vars == <<fs, load_id, loads, requested, current_path, history, forward_stack,
          files, sort_by, show_hidden, filter, header_view, config,
          current_icon_size, directory_monitor, inbox, tasks, cache, calls, trail>>

(***************************************************************************)
(* Bounds of the model.                                                    *)
(***************************************************************************)
MaxLoads == 3        \* load_path calls of the session runs, init's included
MaxInbox == 1        \* Refresh messages waiting in the input channel
MaxEntries == 2      \* children of the directory of the ordering runs
MaxFlightLoads == 2  \* load_path calls of the in-flight runs
MaxCalls == 3        \* get_or_create_thumbnail calls of the cache runs
MaxZoomSteps == 1    \* steps of 16 the icon size moves away from the default
MaxNavLoads == 5     \* load_path calls of the navigation and sort runs

(***************************************************************************)
(* Values.                                                                 *)
(***************************************************************************)
\* Option<T> and Result<T, E>: None and Err are the empty sequence, Some(x) and
\* Ok(x) the one-element sequence
None == <<>>
Some(x) == <<x>>
Unwrap(o) == o[1]

Str_a == <<97>>
Str_A == <<65>>
Str_b == <<98>>
Str_B == <<66>>
Str_x_png == <<120, 46, 112, 110, 103>>
Str_y_png == <<121, 46, 112, 110, 103>>
Str_z_png == <<122, 46, 112, 110, 103>>
Str_s_png == <<115, 46, 112, 110, 103>>
Str_w_png == <<119, 46, 112, 110, 103>>
Str_dot_a == <<46, 97>>
Str_dot_b == <<46, 98>>
Str_v_mp4 == <<118, 46, 109, 112, 52>>
Str_a_txt == <<97, 46, 116, 120, 116>>
Ext_png == <<46, 112, 110, 103>>
Ext_mp4 == <<46, 109, 112, 52>>

SortKeys == {"Name", "Date", "Size"}

\* Locations a Navigate can name.
Dir1 == "d1"
Dir2 == "d2"
TrashUri == "trash:///"
PlainFile == "d1/a.txt"
Locked == "d3"           \* a directory that read_dir cannot open
CacheDir == "cache"      \* dirs::cache_dir()/flux/thumbnails
Locations == {Dir1, Dir2, TrashUri}
NavTargets == Locations \cup {PlainFile, Locked}

\* path.to_string_lossy().starts_with("trash://")
IsTrashUri(p) == p = TrashUri

\* path.is_dir()
IsDir(p) == p \in {Dir1, Dir2, Locked, CacheDir}

\* path.join(&name), root.child(info.name())
Join(p, name) == <<p, name>>

(***************************************************************************)
(* Strings.                                                                *)
(***************************************************************************)
\* char::to_lowercase on ASCII
LowerChar(c) == IF c >= 65 /\ c <= 90 THEN c + 32 ELSE c

\* str::to_lowercase
ToLowercase(s) == [i \in 1..Len(s) |-> LowerChar(s[i])]

\* str::contains
Contains(s, q) ==
    \E i \in 0..(Len(s) - Len(q)) : SubSeq(s, i + 1, i + Len(q)) = q

\* str::starts_with
StartsWith(s, q) == Len(q) <= Len(s) /\ SubSeq(s, 1, Len(q)) = q

EndsWith(s, q) ==
    Len(q) <= Len(s) /\ SubSeq(s, Len(s) - Len(q) + 1, Len(s)) = q

\* Ord for str: byte-wise lexicographic; -1 Less, 0 Equal, 1 Greater
RECURSIVE StrCmp(_, _)
StrCmp(s, t) ==
    IF s = <<>> THEN (IF t = <<>> THEN 0 ELSE -1)
    ELSE IF t = <<>> THEN 1
    ELSE IF Head(s) < Head(t) THEN -1
    ELSE IF Head(s) > Head(t) THEN 1
    ELSE StrCmp(Tail(s), Tail(t))

\* Ord for u64
NatCmp(a, b) == IF a < b THEN -1 ELSE IF a > b THEN 1 ELSE 0

\* Ord for Option<SystemTime>: None is less than every Some
OptCmp(a, b) ==
    IF a = None THEN (IF b = None THEN 0 ELSE -1)
    ELSE IF b = None THEN 1
    ELSE NatCmp(Unwrap(a), Unwrap(b))

BoolCmp(a, b) == IF a = b THEN 0 ELSE IF b THEN -1 ELSE 1

(***************************************************************************)
(* The file system, as load_path sees it.  A child is a record             *)
(*   [name, is_dir, metadata, canon, decodes]                              *)
(* metadata is entry.metadata().ok(), with modified() available whenever   *)
(* the metadata is; canon is target_path.canonicalize().ok(); decodes says *)
(* whether get_or_create_thumbnail obtains an image for the file.          *)
(***************************************************************************)
Child(name, is_dir, metadata, canon, decodes) ==
    [name |-> name, is_dir |-> is_dir, metadata |-> metadata,
     canon |-> canon, decodes |-> decodes]

Meta(len, modified) == Some([len |-> len, modified |-> modified])

\* gio::content_type_guess(Some(filename), None), by extension
ContentTypeGuess(name) ==
    IF EndsWith(name, Ext_png) THEN "image/png"
    ELSE IF EndsWith(name, Ext_mp4) THEN "video/mp4"
    ELSE "application/octet-stream"

\* a sniff that takes every file for an image
IsVisualMediaAlways(name) == <<TRUE, FALSE>>

\* utils::is_visual_media: <<is_img, is_vid>>
is_visual_media(name) ==
    <<ContentTypeGuess(name) = "image/png", ContentTypeGuess(name) = "video/mp4">>

\* All orders in which a directory enumeration can return the set S
Enumerations(S) ==
    {q \in [1..Cardinality(S) -> S] : \A i, j \in DOMAIN q : q[i] = q[j] => i = j}

\* format!("{}.png", hash) of the path: a name that no other path gets
CacheName(abs_path) ==
    <<IF abs_path[1] = CacheDir THEN 99 ELSE 100>> \o abs_path[2] \o Ext_png

\* The directories as the program finds them on disk: those of contents and
\* the thumbnail directory, which holds one file for every entry of the cache;
\* the file decodes when its content is an image
Disk(contents, cached) ==
    [p \in DOMAIN contents \cup {CacheDir} |->
        IF p = CacheDir
        THEN {Child(CacheName(q), FALSE, Meta(1, 1),
                    Some(Join(CacheDir, CacheName(q))), cached[q] # None)
                : q \in DOMAIN cached}
        ELSE contents[p]]

\* Directories that cannot be opened for listing
Unreadable == {Locked}

\* std::fs::read_dir(&path): Ok of one of the enumerations, or Err
ReadDir(contents, path) ==
    IF path \in Unreadable \/ ~IsDir(path) THEN {None}
    ELSE {Some(q) : q \in Enumerations(contents[path])}

\* a subscription that stays on the start directory
MonitorDirectoryFirst(path) == Some(Dir1)

\* gio monitor_directory(...).ok(): the monitor, named by the path it watches
MonitorDirectory(path) ==
    IF path \in Locations \cup {Locked, CacheDir} THEN Some(path) ELSE None

(***************************************************************************)
(* load_path: scan, filter, sort, publish.                                 *)
(***************************************************************************)
\* a scan that keeps the hidden entries whatever show_hidden says
ScanItemsAll(path, enum, hidden_shown) ==
    [i \in 1..Len(enum) |->
        [name |-> enum[i].name, target_path |-> Join(path, enum[i].name),
         metadata |-> enum[i].metadata, is_dir |-> enum[i].is_dir]]

\* items_metadata.push((name, target_path, metadata, is_dir)), hidden skipped
ScanItems(path, enum, hidden_shown) ==
    LET kept == SelectSeq(enum,
                    LAMBDA e : hidden_shown \/ ~StartsWith(e.name, <<46>>))
    IN  [i \in 1..Len(kept) |->
            [name |-> kept[i].name, target_path |-> Join(path, kept[i].name),
             metadata |-> kept[i].metadata, is_dir |-> kept[i].is_dir]]

\* a match that forgets to lower-case the name
NameMatchesCaseSensitive(name, query) == Contains(name, query)

\* name.to_lowercase().contains(&query)
NameMatches(name, query) == Contains(ToLowercase(name), query)

\* a filter that publishes the matches even when there are none
ApplyFilterNoFallback(items, flt) ==
    IF flt = <<>> THEN items
    ELSE SelectSeq(items, LAMBDA it : NameMatches(it.name, ToLowercase(flt)))

\* the filter block of load_path
ApplyFilter(items, flt) ==
    IF flt = <<>> THEN items
    ELSE LET query == ToLowercase(flt)
             matches == SelectSeq(items, LAMBDA it : NameMatches(it.name, query))
         IN  IF matches # <<>> THEN matches ELSE items

\* a.2.as_ref().map(|m| m.len()).unwrap_or(0)
SizeOf(it) == IF it.metadata = None THEN 0 ELSE Unwrap(it.metadata).len

\* a.2.as_ref().and_then(|m| m.modified().ok())
TimeOf(it) ==
    IF it.metadata = None THEN None ELSE Some(Unwrap(it.metadata).modified)

\* a comparator with the Size and Date arms written a-before-b
KeyCmpAscending(a, b, key) ==
    CASE key = "Name" -> StrCmp(ToLowercase(a.name), ToLowercase(b.name))
      [] key = "Size" -> NatCmp(SizeOf(a), SizeOf(b))
      [] key = "Date" -> OptCmp(TimeOf(a), TimeOf(b))

\* the match on self.sort_by inside the comparator
KeyCmp(a, b, key) ==
    CASE key = "Name" -> StrCmp(ToLowercase(a.name), ToLowercase(b.name))
      [] key = "Size" -> NatCmp(SizeOf(b), SizeOf(a))
      [] key = "Date" -> OptCmp(TimeOf(b), TimeOf(a))

\* a comparator that ignores the folders_first setting
GroupCmpFoldersAlwaysFirst(a_is_dir, b_is_dir, folders_first) ==
    BoolCmp(b_is_dir, a_is_dir)

\* the directory/file branch of the comparator
GroupCmp(a_is_dir, b_is_dir, folders_first) ==
    IF folders_first THEN BoolCmp(b_is_dir, a_is_dir)
    ELSE BoolCmp(a_is_dir, b_is_dir)

\* the closure given to sort_by
Compare(a, b, folders_first, key) ==
    IF a.is_dir # b.is_dir THEN GroupCmp(a.is_dir, b.is_dir, folders_first)
    ELSE KeyCmp(a, b, key)

\* slice::sort_by is a stable sort: x goes before the first element greater
\* than it
RECURSIVE InsertStable(_, _, _, _)
InsertStable(sorted, x, folders_first, key) ==
    IF sorted = <<>> THEN <<x>>
    ELSE IF Compare(Head(sorted), x, folders_first, key) > 0
         THEN <<x>> \o sorted
         ELSE <<Head(sorted)>> \o InsertStable(Tail(sorted), x, folders_first, key)

RECURSIVE SortBy(_, _, _)
SortBy(items, folders_first, key) ==
    IF items = <<>> THEN <<>>
    ELSE InsertStable(SortBy(SubSeq(items, 1, Len(items) - 1), folders_first, key),
                      items[Len(items)], folders_first, key)

\* FileItem whose thumbnail is filled in at publication
FileItemWithThumbnail(name, is_dir, path, icon_size) ==
    [name |-> name, thumbnail |-> Some([src |-> path]), is_dir |-> is_dir,
     path |-> path, icon_size |-> icon_size]

\* FileItem { name, icon, thumbnail: None, is_dir, path, icon_size }
FileItem(name, is_dir, path, icon_size) ==
    [name |-> name, thumbnail |-> None, is_dir |-> is_dir, path |-> path,
     icon_size |-> icon_size]

\* the listing appended to self.files by the normal branch
Listing(path, enum, hidden_shown, flt, folders_first, key, icon_size) ==
    LET items == SortBy(ApplyFilter(ScanItems(path, enum, hidden_shown), flt),
                        folders_first, key)
    IN  [i \in 1..Len(items) |->
            FileItem(items[i].name, items[i].is_dir, items[i].target_path, icon_size)]

\* the listing appended by the trash branch: enumeration order, no filter
TrashListing(path, enum, icon_size) ==
    [i \in 1..Len(enum) |->
        FileItem(enum[i].name, enum[i].is_dir, Join(path, enum[i].name), icon_size)]

\* target_path.canonicalize()
Canonicalize(contents, dir, name) ==
    LET e == CHOOSE c \in contents[dir] : c.name = name IN e.canon

\* media_tasks built without looking at is_dir
MediaTasksWithDirectories(contents, dir, listing) ==
    LET eligible == SelectSeq(listing,
            LAMBDA f : /\ (is_visual_media(f.name)[1] \/ is_visual_media(f.name)[2])
                       /\ Canonicalize(contents, dir, f.name) # None)
    IN  [i \in 1..Len(eligible) |->
            <<eligible[i].name,
              Unwrap(Canonicalize(contents, dir, eligible[i].name))>>]

\* media_tasks: <<name, abs_path>> of the published non-directories that are
\* image or video and whose path canonicalizes
MediaTasks(contents, dir, listing) ==
    LET eligible == SelectSeq(listing,
            LAMBDA f : /\ ~f.is_dir
                       /\ (is_visual_media(f.name)[1] \/ is_visual_media(f.name)[2])
                       /\ Canonicalize(contents, dir, f.name) # None)
    IN  [i \in 1..Len(eligible) |->
            <<eligible[i].name,
              Unwrap(Canonicalize(contents, dir, eligible[i].name))>>]

(***************************************************************************)
(* Thumbnails.                                                             *)
(***************************************************************************)
BufferSize == 4          \* buffer_unordered(4)
DefaultIconSize == 128   \* default_icon_size of the built-in configuration

\* The image a thumbnail of the file at abs_path shows
Texture(abs_path) == [src |-> abs_path]

\* What one run of ffmpeg can do: it cannot be started, or it runs, exits
\* with or without success, and leaves no output file, an empty one or a frame
ToolOutcomes ==
    {[spawned |-> FALSE, success |-> FALSE, out |-> "none"]} \cup
    [spawned : {TRUE}, success : BOOLEAN, out : {"none", "empty", "frame"}]

\* What the environment decides during one call: whether the cache directory
\* can be found and created, whether pixbuf.savev writes its file, and the
\* run of the tool
Envs == [dir_ok : BOOLEAN, save_ok : BOOLEAN, tool : ToolOutcomes]

\* The outcomes a call for abs_path can observe: savev matters to an image
\* only, the tool to a video only, and neither when the directory fails
EnvsFor(abs_path) ==
    LET media == is_visual_media(abs_path[2])
        unused == [spawned |-> FALSE, success |-> FALSE, out |-> "none"]
    IN  {env \in Envs :
            /\ (~env.dir_ok \/ ~media[1]) => env.save_ok
            /\ (~env.dir_ok \/ media[1] \/ ~media[2]) => env.tool = unused}

\* the cache with the file of abs_path holding content: Some(texture) for a
\* file gdk::Texture::from_file can load, None for one it cannot
WriteCache(cached, abs_path, content) ==
    [q \in DOMAIN cached \cup {abs_path} |->
        IF q = abs_path THEN content ELSE cached[q]]

\* a thumbnailer that never looks for the cache file and generates anew
GetOrCreateThumbnailNoCacheHit(contents, cached, abs_path, env) ==
    LET e == CHOOSE c \in contents[abs_path[1]] : c.name = abs_path[2]
        media == is_visual_media(abs_path[2])
        absent == [result |-> None, cache |-> cached, decoded |-> FALSE,
                   tool |-> FALSE]
        out == CASE env.tool.out = "none" -> cached
                 [] env.tool.out = "empty" -> WriteCache(cached, abs_path, None)
                 [] env.tool.out = "frame" ->
                        WriteCache(cached, abs_path, Some(Texture(abs_path)))
    IN  IF ~env.dir_ok THEN absent
        ELSE IF media[1]
             THEN IF e.decodes
                  THEN [result |-> Some(Texture(abs_path)),
                        cache |-> IF env.save_ok
                                  THEN WriteCache(cached, abs_path,
                                                  Some(Texture(abs_path)))
                                  ELSE cached,
                        decoded |-> TRUE, tool |-> FALSE]
                  ELSE [absent EXCEPT !.decoded = TRUE]
        ELSE IF media[2]
             THEN [result |-> IF /\ env.tool.spawned /\ env.tool.success
                                 /\ abs_path \in DOMAIN out
                              THEN out[abs_path] ELSE None,
                   cache |-> out, decoded |-> FALSE, tool |-> TRUE]
        ELSE absent

\* utils::get_or_create_thumbnail(&media_path), as
\*   [result, cache (after the call), decoded, tool]
\* decoded: Pixbuf::from_file_at_scale was called on the source; tool: ffmpeg
\* was invoked.
get_or_create_thumbnail(contents, cached, abs_path, env) ==
    LET e == CHOOSE c \in contents[abs_path[1]] : c.name = abs_path[2]
        media == is_visual_media(abs_path[2])
        absent == [result |-> None, cache |-> cached, decoded |-> FALSE,
                   tool |-> FALSE]
        out == CASE env.tool.out = "none" -> cached
                 [] env.tool.out = "empty" -> WriteCache(cached, abs_path, None)
                 [] env.tool.out = "frame" ->
                        WriteCache(cached, abs_path, Some(Texture(abs_path)))
    IN  IF ~env.dir_ok THEN absent
        ELSE IF abs_path \in DOMAIN cached
             THEN [absent EXCEPT !.result = cached[abs_path]]
        ELSE IF media[1]
             THEN IF e.decodes
                  THEN [result |-> Some(Texture(abs_path)),
                        cache |-> IF env.save_ok
                                  THEN WriteCache(cached, abs_path,
                                                  Some(Texture(abs_path)))
                                  ELSE cached,
                        decoded |-> TRUE, tool |-> FALSE]
                  ELSE [absent EXCEPT !.decoded = TRUE]
        ELSE IF media[2]
             THEN [result |-> IF /\ env.tool.spawned /\ env.tool.success
                                 /\ abs_path \in DOMAIN out
                              THEN out[abs_path] ELSE None,
                   cache |-> out, decoded |-> FALSE, tool |-> TRUE]
        ELSE absent

\* One call of get_or_create_thumbnail(abs_path) made on its own: the cache is
\* updated and the call is logged with the cache before and after it.
Request(abs_path) ==
    /\ Len(calls) < MaxCalls
    /\ \E env \in EnvsFor(abs_path) :
          LET out == get_or_create_thumbnail(Disk(fs, cache), cache, abs_path, env)
          IN  /\ cache' = out.cache
              /\ calls' = Append(calls,
                     [path |-> abs_path, result |-> out.result,
                      decoded |-> out.decoded, tool |-> out.tool,
                      exit_ok |-> env.tool.spawned /\ env.tool.success,
                      tool_out |-> env.tool.out,
                      before |-> cache, after |-> out.cache])
    /\ UNCHANGED <<fs, load_id, loads, requested, current_path, history,
                   forward_stack, files, sort_by, show_hidden, filter,
                   header_view, config, current_icon_size, directory_monitor,
                   inbox, tasks, trail>>

\* One future of the stream built by load_path.  view is a history field:
\* the number of the load_path call that created the task.
\*   queued   not yet pulled into the buffer by buffer_unordered
\*   spawned  session checked, spawn_blocking called, closure not yet begun
\*   running  get_or_create_thumbnail is executing
\*   done     the closure returned res, the future has not resumed yet
\* In the runs that follow a call step by step, running is followed by
\*   decoded  no cache file was found and the source has been decoded
\*   saving   pixbuf.savev has opened the cache file and is writing it
NewTasks(session, view, media_tasks) ==
    {[session |-> session, view |-> view, idx |-> i, name |-> media_tasks[i][1],
      path |-> media_tasks[i][2], st |-> "queued", res |-> None]
        : i \in 1..Len(media_tasks)}

InBuffer(session) ==
    {t \in tasks : t.session = session /\ t.st # "queued"}

\* executions of get_or_create_thumbnail in progress
InFlight == {t \in tasks : t.st = "running"}

\* `break` of the while loop: the stream is dropped with the futures it holds.
\* A blocking closure already handed to spawn_blocking is not cancelled.
DropStream(ts, session) ==
    {t \in ts : ~(t.session = session /\ t.st \in {"queued", "done"})}

\* Messages of the input channel; Refresh carries no data
RefreshMsg ==
    [type |-> "Refresh", name |-> <<>>, texture |-> None, load_id |-> 0, view |-> 0]

ThumbnailReadyMsg(name, texture, id, view) ==
    [type |-> "ThumbnailReady", name |-> name, texture |-> Some(texture),
     load_id |-> id, view |-> view]

PendingRefreshes == Len(SelectSeq(inbox, LAMBDA m : m.type = "Refresh"))

(***************************************************************************)
(* FluxApp::load_path                                                      *)
(***************************************************************************)
\* a lookup that ignores the per-folder overrides
SortForDefault(path) == config.default_sort

\* self.config.ui.folder_sort.get(&path_str), else default_sort
SortFor(path) ==
    IF path \in DOMAIN config.folder_sort THEN config.folder_sort[path]
    ELSE config.default_sort

\* self.config.ui.folder_icon_size.get(&path_str), else default_icon_size
IconSizeFor(path) ==
    IF path \in DOMAIN config.folder_icon_size THEN config.folder_icon_size[path]
    ELSE config.default_icon_size

\* The trash branch: returns before the session counter is touched.
LoadTrash(path) ==
    \E enum \in Enumerations(fs[path]) :
        /\ directory_monitor' = MonitorDirectory(path)
        /\ files' = TrashListing(path, enum, IconSizeFor(path))
        /\ current_path' = path
        /\ UNCHANGED <<load_id, tasks>>

\* a normal branch that clears the listing only once read_dir has succeeded
LoadDirKeepsListing(path) ==
    \E rd \in ReadDir(Disk(fs, cache), path) :
        /\ directory_monitor' = MonitorDirectory(path)
        /\ load_id' = load_id + 1
        /\ IF rd = None
           THEN UNCHANGED <<files, current_path, tasks>>
           ELSE LET listing == Listing(path, Unwrap(rd), show_hidden, filter,
                                       config.folders_first, SortFor(path),
                                       IconSizeFor(path))
                IN  /\ files' = listing
                    /\ current_path' = path
                    /\ tasks' = tasks \cup
                          NewTasks(load_id + 1, loads + 1,
                                   MediaTasks(Disk(fs, cache), path, listing))

\* The normal branch.
LoadDir(path) ==
    \E rd \in ReadDir(Disk(fs, cache), path) :
        /\ directory_monitor' = MonitorDirectory(path)
        /\ load_id' = load_id + 1
        /\ IF rd = None
           THEN /\ files' = <<>>
                /\ UNCHANGED <<current_path, tasks>>
           ELSE LET listing == Listing(path, Unwrap(rd), show_hidden, filter,
                                       config.folders_first, SortFor(path),
                                       IconSizeFor(path))
                IN  /\ files' = listing
                    /\ current_path' = path
                    /\ tasks' = tasks \cup
                          NewTasks(load_id + 1, loads + 1,
                                   MediaTasks(Disk(fs, cache), path, listing))

\* Changes fs-independent fields and files, load_id, current_path, tasks,
\* directory_monitor; the caller says what happens to the rest.
load_path(path) ==
    /\ loads < MaxNavLoads
    /\ loads' = loads + 1
    /\ requested' = path
    /\ sort_by' = SortFor(path)
    /\ current_icon_size' = IconSizeFor(path)
    /\ IF IsTrashUri(path) THEN LoadTrash(path) ELSE LoadDir(path)

(***************************************************************************)
(* FluxApp::update                                                         *)
(***************************************************************************)
\* the trail with one more message and what it found; the last two are kept
Trailed(msg) ==
    Append(IF Len(trail) >= 2 THEN Tail(trail) ELSE trail,
           [msg |-> msg, current_path |-> current_path, history |-> history,
            forward_stack |-> forward_stack])

\* the variables update() and the tasks can change, the trail aside
app_vars ==
    <<fs, load_id, loads, requested, current_path, history, forward_stack,
      files, sort_by, show_hidden, filter, header_view, config,
      current_icon_size, directory_monitor, inbox, tasks, cache, calls>>

\* a Navigate that keeps the forward stack
NavigateKeepsForward(path) ==
    /\ IsDir(path) \/ IsTrashUri(path)
    /\ history' = Append(history, current_path)
    /\ forward_stack' = forward_stack
    /\ load_path(path)
    /\ trail' = <<>>
    /\ UNCHANGED <<fs, show_hidden, filter, header_view, config, inbox, cache, calls>>

\* AppMsg::Navigate(path)
Navigate(path) ==
    /\ IsDir(path) \/ IsTrashUri(path)
    /\ history' = Append(history, current_path)
    /\ forward_stack' = <<>>
    /\ load_path(path)
    /\ trail' = <<>>
    /\ UNCHANGED <<fs, show_hidden, filter, header_view, config, inbox, cache, calls>>

\* AppMsg::Navigate(path) when path is neither a directory nor a trash URI
NavigateRejected(path) ==
    /\ ~(IsDir(path) \/ IsTrashUri(path))
    /\ UNCHANGED vars

\* AppMsg::GoBack
GoBack ==
    /\ history # <<>>
    /\ history' = SubSeq(history, 1, Len(history) - 1)
    /\ forward_stack' = Append(forward_stack, current_path)
    /\ load_path(history[Len(history)])
    /\ trail' = Trailed("GoBack")
    /\ UNCHANGED <<fs, show_hidden, filter, header_view, config, inbox, cache, calls>>

\* AppMsg::GoBack when the history is empty: history.pop() is None
GoBackEmpty ==
    /\ history = <<>>
    /\ trail' = Trailed("GoBack")
    /\ UNCHANGED app_vars

\* AppMsg::GoForward when the forward stack is empty
GoForwardEmpty ==
    /\ forward_stack = <<>>
    /\ trail' = Trailed("GoForward")
    /\ UNCHANGED app_vars

\* AppMsg::GoForward
GoForward ==
    /\ forward_stack # <<>>
    /\ forward_stack' = SubSeq(forward_stack, 1, Len(forward_stack) - 1)
    /\ history' = Append(history, current_path)
    /\ load_path(forward_stack[Len(forward_stack)])
    /\ trail' = Trailed("GoForward")
    /\ UNCHANGED <<fs, show_hidden, filter, header_view, config, inbox, cache, calls>>

\* AppMsg::Refresh, taken from the input channel
HandleRefresh ==
    /\ inbox # <<>>
    /\ Head(inbox).type = "Refresh"
    /\ inbox' = Tail(inbox)
    /\ load_path(current_path)
    /\ UNCHANGED <<fs, history, forward_stack, show_hidden, filter, header_view,
                   config, cache, calls, trail>>

\* a handler that applies every result, whatever its tag
IsCurrentUnchecked(id) == id <= load_id

\* load_id == self.load_id.load(SeqCst)
IsCurrent(id) == id = load_id

\* a handler that puts the texture on the first entry of the listing
SetThumbnailAtFront(listing, name, texture) ==
    IF listing = <<>> THEN listing
    ELSE [listing EXCEPT ![1].thumbnail = Some(texture)]

\* files with the thumbnail of the first entry called name set to texture
SetThumbnail(listing, name, texture) ==
    LET hits == {i \in DOMAIN listing : listing[i].name = name}
    IN  IF hits = {} THEN listing
        ELSE LET idx == CHOOSE i \in hits : \A j \in hits : i <= j
             IN  [listing EXCEPT ![idx].thumbnail = Some(texture)]

\* AppMsg::ThumbnailReady { name, texture, load_id }, from the input channel
HandleThumbnailReady ==
    /\ inbox # <<>>
    /\ Head(inbox).type = "ThumbnailReady"
    /\ inbox' = Tail(inbox)
    /\ files' = IF IsCurrent(Head(inbox).load_id)
                THEN SetThumbnail(files, Head(inbox).name,
                                  Unwrap(Head(inbox).texture))
                ELSE files
    /\ UNCHANGED <<fs, load_id, loads, requested, current_path, history,
                   forward_stack,
                   sort_by, show_hidden, filter, header_view, config,
                   current_icon_size, directory_monitor, tasks, cache, calls, trail>>

\* monitor.connect_changed: sender.input(AppMsg::Refresh)
MonitorChanged ==
    /\ directory_monitor # None
    /\ PendingRefreshes < MaxInbox
    /\ inbox' = Append(inbox, RefreshMsg)
    /\ UNCHANGED <<fs, load_id, loads, requested, current_path, history,
                   forward_stack,
                   files, sort_by, show_hidden, filter, header_view, config,
                   current_icon_size, directory_monitor, tasks, cache, calls, trail>>

\* HashMap::insert(key, value)
MapInsert(map, key, value) ==
    [q \in DOMAIN map \cup {key} |-> IF q = key THEN value ELSE map[q]]

\* (size).clamp(lo, hi)
Clamp(size, lo, hi) == IF size < lo THEN lo ELSE IF size > hi THEN hi ELSE size

\* the deltas of a scroll event, by sign
ZoomDeltas == {-1, 0, 1}

\* a size that is not clamped
ZoomSizeUnclamped(size, delta) == size + (IF delta > 0 THEN -16 ELSE 16)

\* change and new_size of Zoom
ZoomSize(size, delta) ==
    LET change == IF delta > 0 THEN -16 ELSE 16
    IN  Clamp(size + change, 32, 512)

\* a Zoom that rebuilds the items without their thumbnails
ZoomDropsThumbnails(delta) ==
    LET new_size == ZoomSize(current_icon_size, delta)
    IN  /\ new_size - config.default_icon_size <= 16 * MaxZoomSteps
        /\ config.default_icon_size - new_size <= 16 * MaxZoomSteps
        /\ IF new_size # current_icon_size
           THEN /\ current_icon_size' = new_size
                /\ config' = [config EXCEPT !.folder_icon_size =
                                  MapInsert(@, current_path, new_size)]
                /\ files' = [i \in DOMAIN files |->
                                [files[i] EXCEPT !.icon_size = new_size,
                                                 !.thumbnail = None]]
           ELSE UNCHANGED <<current_icon_size, config, files>>
        /\ UNCHANGED <<fs, load_id, loads, requested, current_path, history,
                       forward_stack, sort_by, show_hidden, filter, header_view,
                       directory_monitor, inbox, tasks, cache, calls, trail>>

\* AppMsg::Zoom(delta): every item is taken out and put back at its index with
\* the new icon_size
Zoom(delta) ==
    LET new_size == ZoomSize(current_icon_size, delta)
    IN  /\ new_size - config.default_icon_size <= 16 * MaxZoomSteps
        /\ config.default_icon_size - new_size <= 16 * MaxZoomSteps
        /\ IF new_size # current_icon_size
           THEN /\ current_icon_size' = new_size
                /\ config' = [config EXCEPT !.folder_icon_size =
                                  MapInsert(@, current_path, new_size)]
                /\ files' = [i \in DOMAIN files |->
                                [files[i] EXCEPT !.icon_size = new_size]]
           ELSE UNCHANGED <<current_icon_size, config, files>>
        /\ UNCHANGED <<fs, load_id, loads, requested, current_path, history,
                       forward_stack, sort_by, show_hidden, filter, header_view,
                       directory_monitor, inbox, tasks, cache, calls, trail>>

\* AppMsg::ToggleHidden (save_config writes the configuration file, which is
\* not part of the state)
ToggleHidden ==
    /\ PendingRefreshes < MaxInbox
    /\ show_hidden' = ~show_hidden
    /\ config' = [config EXCEPT !.show_hidden_by_default = ~show_hidden]
    /\ inbox' = Append(inbox, RefreshMsg)
    /\ UNCHANGED <<fs, load_id, loads, requested, current_path, history,
                   forward_stack, files, sort_by, filter, header_view,
                   current_icon_size, directory_monitor, tasks, cache, calls, trail>>

\* the match on self.sort_by of CycleSort
NextSortKey(key) ==
    CASE key = "Name" -> "Date"
      [] key = "Date" -> "Size"
      [] key = "Size" -> "Name"

\* AppMsg::CycleSort
CycleSort ==
    /\ PendingRefreshes < MaxInbox
    /\ sort_by' = NextSortKey(sort_by)
    /\ config' = [config EXCEPT !.folder_sort =
                      MapInsert(@, current_path, NextSortKey(sort_by))]
    /\ inbox' = Append(inbox, RefreshMsg)
    /\ UNCHANGED <<fs, load_id, loads, requested, current_path, history,
                   forward_stack, files, show_hidden, filter, header_view,
                   current_icon_size, directory_monitor, tasks, cache, calls, trail>>

\* AppMsg::UpdateFilter(query)
UpdateFilter(query) ==
    /\ PendingRefreshes < MaxInbox
    /\ filter' = query
    /\ inbox' = Append(inbox, RefreshMsg)
    /\ UNCHANGED <<fs, load_id, loads, requested, current_path, history,
                   forward_stack,
                   files, sort_by, show_hidden, header_view, config,
                   current_icon_size, directory_monitor, tasks, cache, calls, trail>>

(***************************************************************************)
(* The thumbnail stream of one load_path call (relm4::spawn).              *)
(***************************************************************************)
TaskVarsOnly ==
    UNCHANGED <<fs, load_id, loads, requested, current_path, history,
                forward_stack, files, sort_by, show_hidden, filter, header_view,
                config, current_icon_size, directory_monitor, calls, trail>>

\* a stream that polls one future at a time, in dispatch order
TaskPollInOrder(t) ==
    /\ t \in tasks /\ t.st = "queued"
    /\ \A u \in tasks : (u.session = t.session /\ u.idx < t.idx) => u.st # "queued"
    /\ InBuffer(t.session) = {}
    /\ tasks' = IF load_id # t.session
                THEN DropStream(tasks \ {t}, t.session)
                ELSE (tasks \ {t}) \cup {[t EXCEPT !.st = "spawned"]}
    /\ UNCHANGED <<inbox, cache>>
    /\ TaskVarsOnly

\* a future that calls spawn_blocking without looking at the session
TaskPollUnchecked(t) ==
    /\ t \in tasks /\ t.st = "queued"
    /\ \A u \in tasks : (u.session = t.session /\ u.idx < t.idx) => u.st # "queued"
    /\ Cardinality(InBuffer(t.session)) < BufferSize
    /\ tasks' = (tasks \ {t}) \cup {[t EXCEPT !.st = "spawned"]}
    /\ UNCHANGED <<inbox, cache>>
    /\ TaskVarsOnly

\* buffer_unordered pulls the next future and polls it: the first session
\* check, then spawn_blocking.  A superseded future returns at once, and the
\* while loop breaks on the item it yields.
TaskPoll(t) ==
    /\ t \in tasks /\ t.st = "queued"
    /\ \A u \in tasks : (u.session = t.session /\ u.idx < t.idx) => u.st # "queued"
    /\ Cardinality(InBuffer(t.session)) < BufferSize
    /\ tasks' = IF load_id # t.session
                THEN DropStream(tasks \ {t}, t.session)
                ELSE (tasks \ {t}) \cup {[t EXCEPT !.st = "spawned"]}
    /\ UNCHANGED <<inbox, cache>>
    /\ TaskVarsOnly

\* the blocking pool starts the closure
TaskBegin(t) ==
    /\ t \in tasks /\ t.st = "spawned"
    /\ tasks' = (tasks \ {t}) \cup {[t EXCEPT !.st = "running"]}
    /\ UNCHANGED <<inbox, cache>>
    /\ TaskVarsOnly

\* the channel after a call has left the cache as cached: the subscription
\* of the thumbnail directory reports a file written there
Notified(cached) ==
    IF directory_monitor = Some(CacheDir) /\ cached # cache
    THEN Append(inbox, RefreshMsg)
    ELSE inbox

\* get_or_create_thumbnail returns
TaskFinish(t) ==
    /\ t \in tasks /\ t.st = "running"
    /\ \E env \in EnvsFor(t.path) :
          LET out == get_or_create_thumbnail(Disk(fs, cache), cache, t.path, env)
          IN  /\ tasks' = (tasks \ {t}) \cup
                              {[t EXCEPT !.st = "done", !.res = out.result]}
              /\ cache' = out.cache
              /\ inbox' = Notified(out.cache)
    /\ TaskVarsOnly

\* The call of an image, step by step and with nothing failing.  First
\* cache_path.exists(): a file that is there is loaded and returned, whatever
\* it holds at that moment; without one the source is decoded.
TaskLookup(t) ==
    /\ t \in tasks /\ t.st = "running"
    /\ tasks' = (tasks \ {t}) \cup
                    {IF t.path \in DOMAIN cache
                     THEN [t EXCEPT !.st = "done", !.res = cache[t.path]]
                     ELSE [t EXCEPT !.st = "decoded"]}
    /\ UNCHANGED <<inbox, cache>>
    /\ TaskVarsOnly

\* pixbuf.savev opens the cache file for writing: the file exists and is
\* empty, then incomplete, until the save is over
TaskSaveOpen(t) ==
    /\ t \in tasks /\ t.st = "decoded"
    /\ tasks' = (tasks \ {t}) \cup {[t EXCEPT !.st = "saving"]}
    /\ cache' = WriteCache(cache, t.path, None)
    /\ inbox' = Notified(cache')
    /\ TaskVarsOnly

\* pixbuf.savev has written the whole file; the call returns the texture of
\* the pixbuf it decoded
TaskSaveClose(t) ==
    /\ t \in tasks /\ t.st = "saving"
    /\ tasks' = (tasks \ {t}) \cup
                    {[t EXCEPT !.st = "done", !.res = Some(Texture(t.path))]}
    /\ cache' = WriteCache(cache, t.path, Some(Texture(t.path)))
    /\ inbox' = Notified(cache')
    /\ TaskVarsOnly

\* the blocking worker fails: spawn_blocking(..).await is Err(JoinError)
TaskAbort(t) ==
    /\ t \in tasks /\ t.st = "running"
    /\ tasks' = (tasks \ {t}) \cup {[t EXCEPT !.st = "done", !.res = None]}
    /\ UNCHANGED <<inbox, cache>>
    /\ TaskVarsOnly

\* a stream that stops at the first task without a thumbnail
TaskResumeStopsOnFailure(t) ==
    /\ t \in tasks /\ t.st = "done"
    /\ inbox' = IF t.res # None /\ load_id = t.session
                THEN Append(inbox,
                            ThumbnailReadyMsg(t.name, Unwrap(t.res), t.session,
                                              t.view))
                ELSE inbox
    /\ tasks' = IF load_id # t.session \/ t.res = None
                THEN DropStream(tasks \ {t}, t.session)
                ELSE tasks \ {t}
    /\ UNCHANGED cache
    /\ TaskVarsOnly

\* the future resumes after the await: second session check, send; then the
\* while loop checks the session and breaks when it is superseded.  (A future
\* dropped with its stream sends nothing either.)
TaskResume(t) ==
    /\ t \in tasks /\ t.st = "done"
    /\ inbox' = IF t.res # None /\ load_id = t.session
                THEN Append(inbox,
                            ThumbnailReadyMsg(t.name, Unwrap(t.res), t.session,
                                              t.view))
                ELSE inbox
    /\ tasks' = IF load_id # t.session
                THEN DropStream(tasks \ {t}, t.session)
                ELSE tasks \ {t}
    /\ UNCHANGED cache
    /\ TaskVarsOnly

(***************************************************************************)
(* Specification of the sessions: a fixed file system, navigation,         *)
(* directory-monitor events and the thumbnail tasks.                       *)
(***************************************************************************)
DefaultConfig ==
    [default_icon_size |-> DefaultIconSize, default_sort |-> "Name",
     folders_first |-> TRUE, show_hidden_by_default |-> FALSE,
     folder_sort |-> <<>>, folder_icon_size |-> <<>>]

SessionFs ==
    [p \in Locations |->
        CASE p = Dir1 ->
               {Child(Str_x_png, FALSE, Meta(1, 1), Some(Join(Dir1, Str_x_png)), TRUE),
                Child(Str_a_txt, FALSE, Meta(1, 1), Some(Join(Dir1, Str_a_txt)), FALSE)}
          [] p = Dir2 ->
               \* x.png is a link to d1/x.png, y.png vanished after it was
               \* enumerated, z.png is a directory
               {Child(Str_x_png, FALSE, Meta(1, 1), Some(Join(Dir1, Str_x_png)), TRUE),
                Child(Str_y_png, FALSE, None, None, FALSE),
                Child(Str_z_png, TRUE, Meta(1, 1), Some(Join(Dir2, Str_z_png)), FALSE)}
          [] p = TrashUri ->
               {Child(Str_x_png, FALSE, None, None, FALSE)}]

\* The state init leaves: the model built with start_path, then
\* load_path(start_path) from load_id 0 and an empty listing.
InitWith(contents, cfg, start_path) ==
    /\ fs = contents
    /\ config = cfg
    /\ history = <<>>
    /\ forward_stack = <<>>
    /\ show_hidden = cfg.show_hidden_by_default
    /\ filter = <<>>
    /\ header_view = "path"
    /\ inbox = <<>>
    /\ cache = <<>>
    /\ calls = <<>>
    /\ trail = <<>>
    /\ loads = 1
    /\ requested = start_path
    /\ load_id = 1
    /\ sort_by = cfg.default_sort
    /\ current_icon_size = cfg.default_icon_size
    /\ directory_monitor = MonitorDirectory(start_path)
    /\ current_path = start_path
    /\ \E rd \in ReadDir(contents, start_path) :
          IF rd = None
          THEN /\ files = <<>>
               /\ tasks = {}
          ELSE LET listing == Listing(start_path, Unwrap(rd),
                                      cfg.show_hidden_by_default, <<>>,
                                      cfg.folders_first, cfg.default_sort,
                                      cfg.default_icon_size)
               IN  /\ files = listing
                   /\ tasks = NewTasks(1, 1,
                                       MediaTasks(contents, start_path, listing))

Init == InitWith(SessionFs, DefaultConfig, Dir1)

Next ==
    \/ \E p \in NavTargets : loads < MaxLoads /\ Navigate(p)
    \/ \E p \in NavTargets : NavigateRejected(p)
    \/ MonitorChanged
    \/ loads < MaxLoads /\ HandleRefresh
    \/ HandleThumbnailReady
    \/ \E t \in tasks : TaskPoll(t)
    \/ \E t \in tasks : TaskBegin(t)
    \/ \E t \in tasks : TaskFinish(t)
    \/ \E t \in tasks : TaskAbort(t)
    \/ \E t \in tasks : TaskResume(t)

Spec == Init /\ [][Next]_vars

(***************************************************************************)
(* Specification of the in-flight runs: one directory with three images    *)
(* (two of them corrupt),                                                  *)
(* refreshed while its thumbnails are generated.                           *)
(***************************************************************************)
FlightFs ==
    [p \in Locations |->
        IF p = Dir1
        THEN {Child(n, FALSE, Meta(1, 1), Some(Join(Dir1, n)), n = Str_x_png)
                : n \in {Str_x_png, Str_y_png, Str_z_png}}
        ELSE {}]

InitFlight == InitWith(FlightFs, DefaultConfig, Dir1)

NextFlight ==
    \/ MonitorChanged
    \/ loads < MaxFlightLoads /\ HandleRefresh
    \/ HandleThumbnailReady
    \/ \E t \in tasks : TaskPoll(t)
    \/ \E t \in tasks : TaskBegin(t)
    \/ \E t \in tasks : TaskFinish(t)
    \/ \E t \in tasks : TaskAbort(t)
    \/ \E t \in tasks : TaskResume(t)

SpecFlight == InitFlight /\ [][NextFlight]_vars

(***************************************************************************)
(* Specification of the ordering runs: the start directory holds any set   *)
(* of at most MaxEntries children, the configuration any policy; the       *)
(* filter is typed and the refresh it requests is handled.                 *)
(***************************************************************************)
OrderNames == {Str_a, Str_A, Str_b}
OrderSizes == {0, 1}
OrderTimes == {1, 2}
OrderFilters == {<<>>, Str_A, Str_b}

OrderMetas == {None} \cup {Meta(l, t) : l \in OrderSizes, t \in OrderTimes}

OrderAttrs == [is_dir : BOOLEAN, metadata : OrderMetas]

OrderFs(names, attrs) ==
    [p \in Locations |->
        IF p = Dir1
        THEN {Child(n, attrs[n].is_dir, attrs[n].metadata, Some(Join(Dir1, n)), FALSE)
                : n \in names}
        ELSE {}]

InitOrder ==
    \E names \in SUBSET OrderNames :
        /\ Cardinality(names) <= MaxEntries
        /\ \E attrs \in [names -> OrderAttrs], ff \in BOOLEAN, key \in SortKeys :
              InitWith(OrderFs(names, attrs),
                       [DefaultConfig EXCEPT !.folders_first = ff,
                                             !.default_sort = key],
                       Dir1)

NextOrder ==
    \/ \E q \in OrderFilters : UpdateFilter(q)
    \/ loads < MaxLoads /\ HandleRefresh

SpecOrder == InitOrder /\ [][NextOrder]_vars

(***************************************************************************)
(* Specification of the failure runs: one directory with a sound and a     *)
(* corrupt image, refreshed by directory-change events (up to             *)
(* MaxFlightLoads loads) while the tasks run, fail or lose their worker.   *)
(***************************************************************************)
FailFs ==
    [p \in Locations |->
        IF p = Dir1
        THEN {Child(Str_x_png, FALSE, Meta(1, 1), Some(Join(Dir1, Str_x_png)), TRUE),
              Child(Str_y_png, FALSE, Meta(1, 1), Some(Join(Dir1, Str_y_png)), FALSE)}
        ELSE {}]

InitFail == InitWith(FailFs, DefaultConfig, Dir1)

NextFail ==
    \/ MonitorChanged
    \/ loads < MaxFlightLoads /\ HandleRefresh
    \/ HandleThumbnailReady
    \/ \E t \in tasks : TaskPoll(t)
    \/ \E t \in tasks : TaskBegin(t)
    \/ \E t \in tasks : TaskFinish(t)
    \/ \E t \in tasks : TaskAbort(t)
    \/ \E t \in tasks : TaskResume(t)

SpecFail == InitFail /\ [][NextFail]_vars

(***************************************************************************)
(* Specification of the zoom runs: the directory d1 of the sessions, zoomed *)
(* in and out and refreshed (up to MaxFlightLoads loads) while its         *)
(* thumbnail is generated and delivered.                                   *)
(***************************************************************************)
InitZoom == InitWith(SessionFs, DefaultConfig, Dir1)

NextZoom ==
    \/ \E d \in ZoomDeltas : Zoom(d)
    \/ MonitorChanged
    \/ loads < MaxFlightLoads /\ HandleRefresh
    \/ HandleThumbnailReady
    \/ \E t \in tasks : TaskPoll(t)
    \/ \E t \in tasks : TaskBegin(t)
    \/ \E t \in tasks : TaskFinish(t)
    \/ \E t \in tasks : TaskAbort(t)
    \/ \E t \in tasks : TaskResume(t)

SpecZoom == InitZoom /\ [][NextZoom]_vars

(***************************************************************************)
(* Specification of the scale runs: d1 of the sessions with a configured    *)
(* default size at, below and between the limits; the user zooms while the *)
(* thumbnail is generated and delivered.                                   *)
(***************************************************************************)
ScaleStarts == {20, 32, 128, 512}

InitScale ==
    \E size \in ScaleStarts :
        InitWith(SessionFs, [DefaultConfig EXCEPT !.default_icon_size = size],
                 Dir1)

NextScale ==
    \/ \E d \in ZoomDeltas : Zoom(d)
    \/ HandleThumbnailReady
    \/ \E t \in tasks : TaskPoll(t)
    \/ \E t \in tasks : TaskBegin(t)
    \/ \E t \in tasks : TaskFinish(t)
    \/ \E t \in tasks : TaskAbort(t)
    \/ \E t \in tasks : TaskResume(t)

SpecScale == InitScale /\ [][NextScale]_vars

(***************************************************************************)
(* Specification of the dispatch runs: the directories of the sessions,    *)
(* visited and refreshed (up to MaxFlightLoads loads) with and without a   *)
(* filter while the tasks run.                                             *)
(***************************************************************************)
DispatchFilters == {<<>>, Str_a}

InitDispatch == InitWith(SessionFs, DefaultConfig, Dir1)

NextDispatch ==
    \/ \E p \in {Dir1, Dir2} : loads < MaxFlightLoads /\ Navigate(p)
    \/ \E q \in DispatchFilters : UpdateFilter(q)
    \/ loads < MaxFlightLoads /\ HandleRefresh
    \/ HandleThumbnailReady
    \/ \E t \in tasks : TaskPoll(t)
    \/ \E t \in tasks : TaskBegin(t)
    \/ \E t \in tasks : TaskFinish(t)
    \/ \E t \in tasks : TaskAbort(t)
    \/ \E t \in tasks : TaskResume(t)

SpecDispatch == InitDispatch /\ [][NextDispatch]_vars

(***************************************************************************)
(* Specification of the cache runs: get_or_create_thumbnail is called on   *)
(* the files of one directory, in any order and with any outcome of the    *)
(* cache directory, the save and the tool.  x.png is a sound image, y.png  *)
(* a corrupt one, v.mp4 a video, a.txt an image under a text name.         *)
(***************************************************************************)
ThumbFs ==
    [p \in Locations |->
        IF p = Dir1
        THEN {Child(Str_x_png, FALSE, Meta(1, 1), Some(Join(Dir1, Str_x_png)), TRUE),
              Child(Str_y_png, FALSE, Meta(1, 1), Some(Join(Dir1, Str_y_png)), FALSE),
              Child(Str_v_mp4, FALSE, Meta(1, 1), Some(Join(Dir1, Str_v_mp4)), FALSE),
              Child(Str_a_txt, FALSE, Meta(1, 1), Some(Join(Dir1, Str_a_txt)), TRUE)}
        ELSE {}]

ThumbPaths == {Join(Dir1, c.name) : c \in ThumbFs[Dir1]}

InitThumb == InitWith(ThumbFs, DefaultConfig, Dir1)

NextThumb == \E p \in ThumbPaths : Request(p)

SpecThumb == InitThumb /\ [][NextThumb]_vars

(***************************************************************************)
(* Specification of the hidden-file runs: the start directory holds any    *)
(* set of at most MaxEntries children out of hidden and visible names,     *)
(* show_hidden starts either way; the user toggles it and types filters.   *)
(***************************************************************************)
HiddenNames == {Str_dot_a, Str_a, Str_dot_b}
HiddenFilters == {<<>>, Str_a}

InitHidden ==
    \E names \in SUBSET HiddenNames :
        /\ Cardinality(names) <= MaxEntries
        /\ \E attrs \in [names -> [is_dir : BOOLEAN, metadata : {Meta(1, 1)}]],
              shown \in BOOLEAN :
              InitWith(OrderFs(names, attrs),
                       [DefaultConfig EXCEPT !.show_hidden_by_default = shown],
                       Dir1)

NextHidden ==
    \/ ToggleHidden
    \/ \E q \in HiddenFilters : UpdateFilter(q)
    \/ loads < MaxLoads /\ HandleRefresh

SpecHidden == InitHidden /\ [][NextHidden]_vars

(***************************************************************************)
(* Specification of the sort runs: d1 holds two files that the three keys  *)
(* order differently, the configuration has any default key and may hold   *)
(* an override for d2; the user cycles the key and moves between d1 and    *)
(* d2.                                                                     *)
(***************************************************************************)
SortFs ==
    [p \in Locations |->
        IF p = Dir1
        THEN {Child(Str_a, FALSE, Meta(0, 1), Some(Join(Dir1, Str_a)), FALSE),
              Child(Str_b, FALSE, Meta(1, 1), Some(Join(Dir1, Str_b)), FALSE)}
        ELSE IF p = Dir2
        THEN {Child(Str_a, FALSE, Meta(1, 1), Some(Join(Dir2, Str_a)), FALSE),
              Child(Str_B, FALSE, Meta(1, 2), Some(Join(Dir2, Str_B)), FALSE)}
        ELSE {}]

SortOverrides == {<<>>, [p \in {Dir2} |-> "Date"]}

InitSort ==
    \E key \in SortKeys, overrides \in SortOverrides :
        InitWith(SortFs,
                 [DefaultConfig EXCEPT !.default_sort = key,
                                       !.folder_sort = overrides],
                 Dir1)

NextSort ==
    \/ CycleSort
    \/ HandleRefresh
    \/ \E p \in {Dir1, Dir2} : Navigate(p)

SpecSort == InitSort /\ [][NextSort]_vars

(***************************************************************************)
(* Specification of the navigation runs: the program is started on d1 or   *)
(* on the directory that cannot be read, and the user navigates, goes back *)
(* and goes forward.  No task runs.                                        *)
(***************************************************************************)
NavStarts == {Dir1, Locked}

InitNav == \E start \in NavStarts : InitWith(SessionFs, DefaultConfig, start)

NextNav ==
    \/ \E p \in NavTargets : Navigate(p)
    \/ \E p \in NavTargets : NavigateRejected(p)
    \/ GoBack
    \/ GoBackEmpty
    \/ GoForward
    \/ GoForwardEmpty

SpecNav == InitNav /\ [][NextNav]_vars

(***************************************************************************)
(* Specification of the stalled runs: one session of a directory with five *)
(* images; the generation for s.png, the first one dispatched, never       *)
(* returns.  Every future that can make a step is scheduled, the blocking  *)
(* pool runs every closure it is given, and update() handles every message *)
(* of the channel.                                                         *)
(***************************************************************************)
StuckName == Str_s_png

StallNames == {Str_s_png, Str_w_png, Str_x_png, Str_y_png, Str_z_png}

StallFs ==
    [p \in Locations |->
        IF p = Dir1
        THEN {Child(n, FALSE, Meta(1, 1), Some(Join(Dir1, n)), TRUE)
                : n \in StallNames}
        ELSE {}]

InitStall == InitWith(StallFs, DefaultConfig, Dir1)

\* a generation other than the stuck one returns, or its worker fails
OtherEnds ==
    \E t \in tasks : t.name # StuckName /\ (TaskFinish(t) \/ TaskAbort(t))

NextStall ==
    \/ HandleThumbnailReady
    \/ \E t \in tasks : TaskPoll(t)
    \/ \E t \in tasks : TaskBegin(t)
    \/ OtherEnds
    \/ \E t \in tasks : TaskResume(t)

FairStall ==
    /\ WF_vars(HandleThumbnailReady)
    /\ WF_vars(\E t \in tasks : TaskPoll(t))
    /\ WF_vars(\E t \in tasks : TaskBegin(t))
    /\ WF_vars(OtherEnds)
    /\ WF_vars(\E t \in tasks : TaskResume(t))

SpecStall == InitStall /\ [][NextStall]_vars /\ FairStall

(***************************************************************************)
(* Specification of the delivery runs: one session of the directory with a *)
(* sound and a corrupt image; the user zooms at will while every           *)
(* generation returns or fails, every future is scheduled and update()     *)
(* handles every message of the channel.                                   *)
(***************************************************************************)
FairTasks ==
    /\ WF_vars(HandleThumbnailReady)
    /\ WF_vars(\E t \in tasks : TaskPoll(t))
    /\ WF_vars(\E t \in tasks : TaskBegin(t))
    /\ WF_vars(\E t \in tasks : TaskFinish(t) \/ TaskAbort(t))
    /\ WF_vars(\E t \in tasks : TaskResume(t))

SpecDelivery == InitFail /\ [][NextScale]_vars /\ FairTasks

(***************************************************************************)
(* Specification of the idle runs: from d1 the user opens d1 or the        *)
(* thumbnail directory; nothing outside the program changes a directory,   *)
(* so every Refresh is the program's own.                                  *)
(***************************************************************************)
InitIdle == InitWith(SessionFs, DefaultConfig, Dir1)

NextIdle ==
    \/ \E p \in {Dir1, CacheDir} : loads < MaxFlightLoads /\ Navigate(p)
    \/ loads < MaxLoads /\ HandleRefresh
    \/ HandleThumbnailReady
    \/ \E t \in tasks : TaskPoll(t)
    \/ \E t \in tasks : TaskBegin(t)
    \/ \E t \in tasks : TaskFinish(t)
    \/ \E t \in tasks : TaskAbort(t)
    \/ \E t \in tasks : TaskResume(t)

SpecIdle == InitIdle /\ [][NextIdle]_vars

(***************************************************************************)
(* Specification of the concurrent runs: d1 holds the image x.png and      *)
(* y.png, a link to it, so that one session has two tasks for one          *)
(* canonical path; a refresh (up to MaxFlightLoads loads) adds the tasks   *)
(* of a second session while workers of the first are still in their call. *)
(* The calls are followed step by step.                                    *)
(***************************************************************************)
RaceFs ==
    [p \in Locations |->
        IF p = Dir1
        THEN {Child(Str_x_png, FALSE, Meta(1, 1), Some(Join(Dir1, Str_x_png)), TRUE),
              Child(Str_y_png, FALSE, Meta(1, 1), Some(Join(Dir1, Str_x_png)), TRUE)}
        ELSE {}]

InitRace == InitWith(RaceFs, DefaultConfig, Dir1)

NextRace ==
    \/ MonitorChanged
    \/ loads < MaxFlightLoads /\ HandleRefresh
    \/ HandleThumbnailReady
    \/ \E t \in tasks : TaskPoll(t)
    \/ \E t \in tasks : TaskBegin(t)
    \/ \E t \in tasks : TaskLookup(t)
    \/ \E t \in tasks : TaskSaveOpen(t)
    \/ \E t \in tasks : TaskSaveClose(t)
    \/ \E t \in tasks : TaskResume(t)

SpecRace == InitRace /\ [][NextRace]_vars

(***************************************************************************)
(* Sessions and stale results.                                             *)
(***************************************************************************)
HeadIsThumbnailReady == inbox # <<>> /\ Head(inbox).type = "ThumbnailReady"

\* this step is update() handling the ThumbnailReady at the head of the channel
ThumbnailReadyHandled == HeadIsThumbnailReady /\ inbox' = Tail(inbox)

\* this step is a load_path call
LoadPathCalled == loads' = loads + 1

\* this step gives some entry of the listing a thumbnail it did not show before
ThumbnailApplied ==
    \E i \in DOMAIN files' :
        /\ files'[i].thumbnail # None
        /\ (i \notin DOMAIN files \/ files[i].thumbnail # files'[i].thumbnail)

NoThumbnails(listing) == \A i \in DOMAIN listing : listing[i].thumbnail = None

\* C1: once the session counter has reached N, a ThumbnailReady tagged with an
\* id below N leaves the displayed listing as it is, whether it was sent before
\* the increment or computed across it; a thumbnail appears in the listing only
\* by handling a ThumbnailReady whose tag equals the counter.
C1_StaleResultsDropped ==
    [][ /\ (ThumbnailReadyHandled /\ Head(inbox).load_id < load_id)
            => files' = files
        /\ ThumbnailApplied
            => (ThumbnailReadyHandled /\ Head(inbox).load_id = load_id) ]_vars

\* C1 witness: a result of session 1 waits in the channel after the counter
\* moved on, and the displayed listing has an entry of that name.
C1_Witness ==
    /\ HeadIsThumbnailReady
    /\ Head(inbox).load_id < load_id
    /\ \E i \in DOMAIN files : files[i].name = Head(inbox).name

\* C2: after a load of a new directory view, trash views included, a thumbnail
\* produced by a task launched for an earlier view is never applied to the
\* displayed listing (view: the load_path call that created the task).
C2_NoThumbnailFromEarlierView ==
    [][ (ThumbnailReadyHandled /\ Head(inbox).view # loads) => files' = files ]_vars

\* C3: every load_path call increments the session counter exactly once, the
\* tasks it dispatches carry the incremented value, and no other step changes
\* the counter.
C3_OneIncrementPerLoad ==
    [][ /\ LoadPathCalled =>
              /\ load_id' = load_id + 1
              /\ \A t \in tasks' \ tasks : t.session = load_id'
        /\ ~LoadPathCalled => load_id' = load_id ]_vars

\* C4: every load_path call leaves a listing without any thumbnail, also for
\* files that already have a cache file, and a ThumbnailReady is handled only
\* after the load_path call of its session has published that listing.
C4_ListingBeforeThumbnails ==
    [][ /\ LoadPathCalled =>
              /\ NoThumbnails(files')
              /\ \A t \in tasks' \ tasks : t.st = "queued"
        /\ ThumbnailReadyHandled => Head(inbox).load_id <= load_id ]_vars

\* C4 witness: a reload has just published a file whose thumbnail is in the
\* cache; the entry shows no thumbnail and its task has not started.
C4_Witness ==
    /\ loads = 2
    /\ \E i \in DOMAIN files :
          /\ files[i].path \in DOMAIN cache
          /\ files[i].thumbnail = None
          /\ \E t \in tasks : /\ t.session = load_id
                              /\ t.name = files[i].name
                              /\ t.st = "queued"

\* C5: at most four executions of get_or_create_thumbnail are in progress in
\* any state, across all sessions.
C5_AtMostFourInFlight == Cardinality(InFlight) <= BufferSize

(***************************************************************************)
(* The published order and the filter.  The listing is judged when no      *)
(* Refresh is waiting: it is then the listing of the current policy and    *)
(* filter.  The properties are written on the names, sizes and times of    *)
(* the children, not with the comparator of load_path.                     *)
(***************************************************************************)
Settled == PendingRefreshes = 0

NormalView == ~IsTrashUri(current_path)

\* the child of the current directory behind entry i of the listing
ChildAt(i) == CHOOSE c \in fs[current_path] : c.name = files[i].name

LowerName(i) == [k \in 1..Len(files[i].name) |-> LowerChar(files[i].name[k])]

\* s <= t in the byte-wise lexicographic order
LexLeq(s, t) ==
    \/ /\ Len(s) <= Len(t)
       /\ \A k \in 1..Len(s) : s[k] = t[k]
    \/ \E k \in 1..Len(s) :
          /\ k <= Len(t)
          /\ \A m \in 1..(k - 1) : s[m] = t[m]
          /\ s[k] < t[k]

HasTime(i) == ChildAt(i).metadata # None

StampAt(i) == ChildAt(i).metadata[1].modified

BytesAt(i) == IF ChildAt(i).metadata = None THEN 0 ELSE ChildAt(i).metadata[1].len

SameGroup(i, j) == files[i].is_dir = files[j].is_dir

\* name contains flt, compared without case
ContainsIgnoringCase(name, flt) ==
    \E i \in 0..(Len(name) - Len(flt)) :
        \A k \in 1..Len(flt) : LowerChar(name[i + k]) = LowerChar(flt[k])

\* the children load_path scans: hidden ones only when show_hidden
Scanned ==
    {c \in fs[current_path] : show_hidden \/ c.name[1] # 46}

\* C6: in the listing of a normal directory every directory precedes every
\* non-directory when folders_first is set, and every non-directory precedes
\* every directory when it is not.
C6_GroupsInPolicyOrder ==
    NormalView =>
        \A i, j \in DOMAIN files :
            (i < j /\ ~SameGroup(i, j)) =>
                (files[i].is_dir <=> config.folders_first)

\* C6 witness: files-first policy, a refresh has published a listing with both
\* groups.
C6_Witness ==
    /\ ~config.folders_first
    /\ loads > 1
    /\ Settled
    /\ \E i, j \in DOMAIN files : files[i].is_dir /\ ~files[j].is_dir

\* C7: within the directories and within the files of the listing, entries
\* follow the sort key: Name by lower-cased name ascending, Size by byte count
\* descending with an absent size as 0, Date by time descending with absent
\* times after all present ones.
C7_SortedWithinGroups ==
    (NormalView /\ Settled) =>
        \A i, j \in DOMAIN files :
            (i < j /\ SameGroup(i, j)) =>
                CASE sort_by = "Name" -> LexLeq(LowerName(i), LowerName(j))
                  [] sort_by = "Size" -> BytesAt(i) >= BytesAt(j)
                  [] sort_by = "Date" ->
                        /\ HasTime(j) => HasTime(i)
                        /\ (HasTime(i) /\ HasTime(j)) => StampAt(i) >= StampAt(j)

\* C7 witness: Date policy, a refresh has published a group with a dated entry
\* before an undated one.
C7_Witness ==
    /\ sort_by = "Date"
    /\ loads > 1
    /\ Settled
    /\ \E i, j \in DOMAIN files :
          i < j /\ SameGroup(i, j) /\ HasTime(i) /\ ~HasTime(j)

\* C8: the published sequence does not depend on the order in which the scan
\* enumerates the children: every enumeration of the same set gives the
\* listing that is displayed.
C8_OrderIndependentOfEnumeration ==
    (NormalView /\ Settled) =>
        \A q \in Enumerations(fs[current_path]) :
            Listing(current_path, q, show_hidden, filter, config.folders_first,
                    sort_by, current_icon_size) = files

\* entries i and j are equal on the active sort key
EqualKey(i, j) ==
    CASE sort_by = "Name" -> LowerName(i) = LowerName(j)
      [] sort_by = "Size" -> BytesAt(i) = BytesAt(j)
      [] sort_by = "Date" ->
            /\ HasTime(i) = HasTime(j)
            /\ HasTime(i) => StampAt(i) = StampAt(j)

\* C9: two entries of one group that are equal on the sort key appear in
\* ascending case-insensitive name order.
C9_TiesInNameOrder ==
    (NormalView /\ Settled) =>
        \A i, j \in DOMAIN files :
            (i < j /\ SameGroup(i, j) /\ EqualKey(i, j)) =>
                LexLeq(LowerName(i), LowerName(j))

\* C10: with a non-empty filter that some scanned name contains (case
\* ignored), the listing holds exactly the scanned children whose name
\* contains it, each once.
C10_FilterKeepsExactlyMatches ==
    (NormalView /\ Settled /\ filter # <<>>
        /\ \E c \in Scanned : ContainsIgnoringCase(c.name, filter)) =>
            /\ {files[i].name : i \in DOMAIN files} =
                  {c.name : c \in {d \in Scanned : ContainsIgnoringCase(d.name, filter)}}
            /\ \A i, j \in DOMAIN files : files[i].name = files[j].name => i = j

\* C10 witness: the upper-case filter A is applied to a directory holding a
\* matching and a non-matching child, and the non-matching one is gone.
C10_Witness ==
    /\ Settled
    /\ filter = Str_A
    /\ \E c \in Scanned : ~ContainsIgnoringCase(c.name, filter)
    /\ \E c \in Scanned : c.name = Str_a
    /\ Len(files) < Cardinality(Scanned)

\* C11: with a non-empty filter that no scanned name contains (case ignored),
\* the listing holds every scanned child, each once, as it does with an empty
\* filter; it is not empty unless the directory is.
C11_NoMatchFallsBackToAll ==
    (NormalView /\ Settled /\ filter # <<>>
        /\ \A c \in Scanned : ~ContainsIgnoringCase(c.name, filter)) =>
            /\ {files[i].name : i \in DOMAIN files} = {c.name : c \in Scanned}
            /\ Len(files) = Cardinality(Scanned)
            /\ \E q \in Enumerations(fs[current_path]) :
                  files = Listing(current_path, q, show_hidden, <<>>,
                                  config.folders_first, sort_by, current_icon_size)

\* C11 witness: the filter b was typed and its refresh handled in a directory
\* of two children, neither of which contains it; both are listed.
C11_Witness ==
    /\ Settled
    /\ loads > 1
    /\ filter = Str_b
    /\ Cardinality(Scanned) = 2
    /\ \A c \in Scanned : ~ContainsIgnoringCase(c.name, filter)
    /\ Len(files) = 2

(***************************************************************************)
(* Hidden entries.                                                         *)
(***************************************************************************)
IsHiddenName(name) == name # <<>> /\ name[1] = 46

\* C12: in the listing of a normal directory an entry whose name begins with
\* '.' is present only if show_hidden is set; without a filter the listing
\* holds every child when show_hidden is set and exactly the children whose
\* name does not begin with '.' when it is not, so that ToggleHidden and its
\* refresh switch between these two listings.
C12_HiddenOnlyWhenShown ==
    (NormalView /\ Settled) =>
        /\ \A i \in DOMAIN files : IsHiddenName(files[i].name) => show_hidden
        /\ (filter = <<>> /\ show_hidden) =>
              /\ {files[i].name : i \in DOMAIN files} =
                    {c.name : c \in fs[current_path]}
              /\ Len(files) = Cardinality(fs[current_path])
        /\ (filter = <<>> /\ ~show_hidden) =>
              /\ {files[i].name : i \in DOMAIN files} =
                    {c.name : c \in {d \in fs[current_path] : ~IsHiddenName(d.name)}}
              /\ Len(files) =
                    Cardinality({d \in fs[current_path] : ~IsHiddenName(d.name)})

\* C12 witness: after two refreshes show_hidden is off, the directory holds a
\* hidden and a visible child, and only the visible one is listed.
C12_Witness ==
    /\ Settled
    /\ loads = 3
    /\ ~show_hidden
    /\ filter = <<>>
    /\ \E c \in fs[current_path] : IsHiddenName(c.name)
    /\ Len(files) = 1
    /\ ~IsHiddenName(files[1].name)

(***************************************************************************)
(* Scan errors.                                                            *)
(***************************************************************************)
\* C13: a load_path call for a directory that read_dir cannot open leaves an
\* empty listing, dispatches no thumbnail task and sends nothing; a load of a
\* readable normal directory lists also the children whose metadata cannot be
\* read.
C13_UnreadableDirectoryListsNothing ==
    [][ /\ (LoadPathCalled /\ requested' \in Unreadable) =>
              /\ files' = <<>>
              /\ tasks' = tasks
              /\ Len(inbox') <= Len(inbox)
        /\ (LoadPathCalled /\ requested' \notin Unreadable
                /\ ~IsTrashUri(requested') /\ filter = <<>>) =>
              \A c \in fs[requested'] :
                  (c.metadata = None /\ (show_hidden \/ ~IsHiddenName(c.name))) =>
                      \E i \in DOMAIN files' : files'[i].name = c.name ]_vars

\* C13 witness: the locked directory was requested while d1 was displayed with
\* its thumbnail task alive; the listing is empty and the task is still the
\* only one.
C13_Witness ==
    /\ requested = Locked
    /\ files = <<>>
    /\ current_path = Dir1
    /\ Cardinality(tasks) = 1

\* C13 second witness: a child without metadata is listed.
C13_WitnessNoMetadata ==
    \E i \in DOMAIN files :
        /\ NormalView
        /\ \E c \in fs[current_path] : c.name = files[i].name /\ c.metadata = None

(***************************************************************************)
(* The thumbnail cache.  The properties are written on the log of calls.   *)
(***************************************************************************)
\* the content of the cache file of path p in cache c: None when there is no
\* file, Some(content) otherwise
CacheFile(c, p) == IF p \in DOMAIN c THEN Some(c[p]) ELSE None

\* calls k and k + 1 are for the same path
Repeated(k) == k + 1 \in DOMAIN calls /\ calls[k + 1].path = calls[k].path

NotMedia(abs_path) ==
    ~ContentTypeGuess(abs_path[2]) \in {"image/png", "video/mp4"}

\* C15: a call for a source that is neither image nor video returns no
\* thumbnail, decodes nothing, invokes no tool and leaves the cache as it was:
\* the same files with the same content; the step of the call leaves the
\* listing as it was.
C15_NonMediaLeavesCacheAlone ==
    [][ Len(calls') = Len(calls) + 1 =>
            LET c == calls'[Len(calls')]
            IN  /\ c.before = cache /\ c.after = cache'
                /\ NotMedia(c.path) =>
                      /\ c.result = None
                      /\ ~c.decoded /\ ~c.tool
                      /\ DOMAIN cache' = DOMAIN cache
                      /\ cache' = cache
                      /\ files' = files ]_vars

\* C15 witness: a.txt, whose content is an image, was requested twice in a row
\* when the cache already held a file.
C15_Witness ==
    \E k \in DOMAIN calls :
        /\ calls[k].path = Join(Dir1, Str_a_txt)
        /\ calls[k].before # <<>>
        /\ k > 1 /\ calls[k - 1].path = calls[k].path

IsVideo(abs_path) == ContentTypeGuess(abs_path[2]) = "video/mp4"

\* the call ran the tool, the tool exited with code 0 and left a non-empty
\* output file
ExtractionSucceeded(c) == c.tool /\ c.exit_ok /\ c.tool_out = "frame"

\* C16: a call for a video returns a thumbnail only if an extraction for that
\* path has succeeded, in this call or in an earlier one; after any other
\* outcome this call and the later ones return none until one succeeds.
C16_VideoThumbnailOnlyAfterSuccess ==
    \A k \in DOMAIN calls :
        (IsVideo(calls[k].path) /\ calls[k].result # None) =>
            \E j \in 1..k : /\ calls[j].path = calls[k].path
                             /\ ExtractionSucceeded(calls[j])

\* the part of C16 about one call: a call that ran the tool returns a
\* thumbnail only if that run succeeded
C16_SameCall ==
    \A k \in DOMAIN calls :
        (IsVideo(calls[k].path) /\ calls[k].tool /\ calls[k].result # None) =>
            ExtractionSucceeded(calls[k])

(***************************************************************************)
(* Failures of single tasks.                                               *)
(***************************************************************************)
\* t with its generation over and no thumbnail: get_or_create_thumbnail
\* returned None or the worker failed
Failed(t) == [t EXCEPT !.st = "done", !.res = None]

\* C17: a task whose generation ends without a thumbnail changes nothing but
\* itself: the step in which it fails and the step in which its future ends
\* leave the listing, the channel and every other task as they were; a
\* ThumbnailReady is sent only for a task that holds a thumbnail.
C17_FailureStaysWithItsEntry ==
    [][ /\ \A t \in tasks :
              (t.st = "running" /\ Failed(t) \in tasks' /\ Failed(t) \notin tasks) =>
                  /\ files' = files
                  /\ inbox' = inbox
                  /\ tasks' \ {Failed(t)} = tasks \ {t}
        /\ \A t \in tasks :
              (t = Failed(t) /\ t.session = load_id /\ t \notin tasks') =>
                  /\ files' = files
                  /\ inbox' = inbox
                  /\ tasks' = tasks \ {t}
        /\ (Len(inbox') = Len(inbox) + 1
                /\ inbox'[Len(inbox')].type = "ThumbnailReady") =>
              \E t \in tasks :
                  /\ t.st = "done" /\ t.res # None
                  /\ t.name = inbox'[Len(inbox')].name
                  /\ t.res = inbox'[Len(inbox')].texture ]_vars

\* C17 witness: in the first session the task of the corrupt y.png has failed
\* and ended, and the thumbnail of x.png is displayed.
C17_Witness ==
    /\ load_id = 1
    /\ tasks = {}
    /\ inbox = <<>>
    /\ \E i, j \in DOMAIN files :
          /\ files[i].name = Str_x_png /\ files[i].thumbnail # None
          /\ files[j].name = Str_y_png /\ files[j].thumbnail = None

(***************************************************************************)
(* The two session checks of a task.                                       *)
(***************************************************************************)
Superseded(t) == t.session # load_id

\* C18: a task that is superseded before its future is first polled never
\* starts a generation: no step moves it out of the queue except to drop it;
\* a task that is superseded when its future resumes sends nothing; every
\* ThumbnailReady sent carries the value the counter has at that moment.
C18_SessionCheckedTwice ==
    [][ /\ \A t \in tasks :
              (t.st = "queued" /\ Superseded(t)) =>
                  \A u \in tasks' :
                      (u.session = t.session /\ u.idx = t.idx) => u = t
        /\ \A t \in tasks :
              (t.st = "done" /\ Superseded(t) /\ t \notin tasks') =>
                  inbox' = inbox
        /\ (Len(inbox') = Len(inbox) + 1
                /\ inbox'[Len(inbox')].type = "ThumbnailReady") =>
              inbox'[Len(inbox')].load_id = load_id ]_vars

\* C18 witness: a generation that began in its own session has returned a
\* thumbnail after the counter moved on, while another task of an old session
\* is still in the queue.
C18_Witness ==
    /\ \E t \in tasks : t.st = "done" /\ t.res # None /\ Superseded(t)
    /\ \E t \in tasks : t.st = "queued" /\ Superseded(t)

(***************************************************************************)
(* Applying a result to the listing.                                       *)
(***************************************************************************)
\* C19: handling a ThumbnailReady keeps the length, order, names and all other
\* fields of the listing; only an entry whose name is the message's name can
\* change, only its thumbnail, only to the message's texture and only for the
\* current session; at most one entry changes; with the current session and
\* an entry of that name present, an entry of that name shows the texture
\* afterwards; without such an entry the listing is unchanged.
C19_ResultAppliedByName ==
    [][ ThumbnailReadyHandled =>
            LET m == Head(inbox)
                changed == {i \in DOMAIN files : files'[i] # files[i]}
            IN  /\ DOMAIN files' = DOMAIN files
                /\ \A i \in changed :
                      /\ m.load_id = load_id
                      /\ files[i].name = m.name
                      /\ files'[i] = [files[i] EXCEPT !.thumbnail = m.texture]
                /\ Cardinality(changed) <= 1
                /\ (m.load_id = load_id
                        /\ \E i \in DOMAIN files : files[i].name = m.name) =>
                      \E i \in DOMAIN files :
                          files'[i].name = m.name /\ files'[i].thumbnail = m.texture
                /\ (\A i \in DOMAIN files : files[i].name # m.name) =>
                      files' = files ]_vars

\* C19 witness: a result of the current session waits in the channel, Zoom has
\* rebuilt the listing since it was published, and the entry the result is
\* for is not the first of the listing.
C19_Witness ==
    /\ HeadIsThumbnailReady
    /\ Head(inbox).load_id = load_id
    /\ current_icon_size # DefaultIconSize
    /\ \E i \in DOMAIN files :
          /\ i > 1
          /\ files[i].name = Head(inbox).name
          /\ files[i].icon_size = current_icon_size
          /\ files[i].thumbnail = None

(***************************************************************************)
(* The tasks a load dispatches.                                            *)
(***************************************************************************)
\* this step is a load_path call that read a normal directory
NormalLoad ==
    LoadPathCalled /\ ~IsTrashUri(requested') /\ requested' \notin Unreadable

IsMediaName(name) == ContentTypeGuess(name) \in {"image/png", "video/mp4"}

\* the canonical path of the child called name of the directory just loaded
CanonOf(name) == (CHOOSE c \in fs[requested'] : c.name = name).canon

\* the tasks created by this step
Dispatched == tasks' \ tasks

\* every dispatched task is for a published media file, carries the session
\* of this load and the canonical path of its entry
TasksAreForPublishedMedia ==
    \A t \in Dispatched :
        /\ t.session = load_id'
        /\ \E i \in DOMAIN files' :
              /\ files'[i].name = t.name
              /\ ~files'[i].is_dir
              /\ IsMediaName(t.name)
              /\ CanonOf(t.name) = Some(t.path)

\* C20 as stated: a load of a normal directory creates exactly one task for
\* each published non-directory with an image or video name and no other
\* task; each carries the session of the load and the canonical path.
C20_OneTaskPerMediaEntry ==
    [][ NormalLoad =>
            /\ \A i \in DOMAIN files' :
                  (~files'[i].is_dir /\ IsMediaName(files'[i].name)) =>
                      Cardinality({t \in Dispatched : t.name = files'[i].name}) = 1
            /\ TasksAreForPublishedMedia ]_vars

\* C20 amended: the same, for the entries whose path can be canonicalized; an
\* entry whose path cannot gets no task.
C20_OneTaskPerResolvableMediaEntry ==
    [][ NormalLoad =>
            /\ \A i \in DOMAIN files' :
                  (~files'[i].is_dir /\ IsMediaName(files'[i].name)) =>
                      Cardinality({t \in Dispatched : t.name = files'[i].name}) =
                          IF CanonOf(files'[i].name) # None THEN 1 ELSE 0
            /\ TasksAreForPublishedMedia ]_vars

\* C20 witness: d2 has just been loaded; of its three entries with image names
\* only the link x.png has a task, queued with the path of its target.
C20_Witness ==
    /\ requested = Dir2
    /\ current_path = Dir2
    /\ Len(files) = 3
    /\ {t \in tasks : t.session = load_id} =
          {[session |-> load_id, view |-> loads, idx |-> 1, name |-> Str_x_png,
            path |-> Join(Dir1, Str_x_png), st |-> "queued", res |-> None]}

(***************************************************************************)
(* The directory-change subscription.                                      *)
(***************************************************************************)
\* this step is update() handling the Refresh at the head of the channel
RefreshHandled ==
    inbox # <<>> /\ Head(inbox).type = "Refresh" /\ inbox' = Tail(inbox)

\* C25: the subscription field holds at most one subscription, and it is for
\* the path of the last load_path call: every load replaces the subscription
\* by one for the requested path, no other step touches it; a change event
\* puts one Refresh into the channel, and handling a Refresh loads the path
\* that is current at that moment.
C25_OneSubscriptionForRequestedPath ==
    [][ /\ directory_monitor \in {None, Some(requested)}
        /\ directory_monitor' \in {None, Some(requested')}
        /\ LoadPathCalled => directory_monitor' = MonitorDirectory(requested')
        /\ ~LoadPathCalled => directory_monitor' = directory_monitor
        /\ RefreshHandled => (LoadPathCalled /\ requested' = current_path)
        /\ (~LoadPathCalled /\ PendingRefreshes' > PendingRefreshes) =>
              /\ directory_monitor # None
              /\ inbox' = Append(inbox, RefreshMsg) ]_vars

\* C25 witness: d2 was opened from d1, the subscription is the one for d2 and
\* a change event on it has put a Refresh into the channel.
C25_Witness ==
    /\ loads = 2
    /\ requested = Dir2
    /\ directory_monitor = Some(Dir2)
    /\ history = <<Dir1>>
    /\ PendingRefreshes = 1

(***************************************************************************)
(* The path a load leaves current.                                         *)
(***************************************************************************)
\* the listing, the subscription and the tasks created by this step are those
\* of path p
ViewRefersTo(p) ==
    /\ \A i \in DOMAIN files' : files'[i].path = Join(p, files'[i].name)
    /\ directory_monitor' \in {None, Some(p)}
    /\ \A t \in tasks' \ tasks : t.session = load_id'

\* C27: a load_path call made for Navigate, GoBack or GoForward (any call that
\* is not the handling of a Refresh) leaves current_path equal to the path it
\* was given, with the listing, the subscription and the new tasks being those
\* of that path, also when the path cannot be opened for listing.
C27_CurrentPathIsLoadedPath ==
    [][ (LoadPathCalled /\ ~RefreshHandled) =>
            /\ current_path' = requested'
            /\ ViewRefersTo(requested') ]_vars

\* the part of C27 about the paths that can be opened: it holds
C27_ReadablePathBecomesCurrent ==
    [][ (LoadPathCalled /\ ~RefreshHandled /\ requested' \notin Unreadable) =>
            /\ current_path' = requested'
            /\ ViewRefersTo(requested') ]_vars

(***************************************************************************)
(* The sort key of a folder.                                               *)
(***************************************************************************)
\* the key after key in the cycle Name, Date, Size
KeyCycle == <<"Name", "Date", "Size">>

After(key) ==
    LET i == CHOOSE k \in DOMAIN KeyCycle : KeyCycle[k] = key
    IN  KeyCycle[(i % 3) + 1]

\* the keys stored for the folders other than p are the same in m and n
SameElsewhere(m, n, p) ==
    /\ DOMAIN n \ {p} = DOMAIN m \ {p}
    /\ \A q \in DOMAIN m \ {p} : n[q] = m[q]

\* this step is update() handling CycleSort: the key changes without a load
CycleSortHandled == ~LoadPathCalled /\ sort_by' # sort_by

\* C26: every load of p makes the override stored for p the active key, or
\* the configured default when there is none, and a normal directory is then
\* listed in the order of that key; CycleSort moves the key one step along
\* Name, Date, Size, Name, stores it as the override of the current path,
\* leaves the other overrides alone and requests a refresh; three steps along
\* the cycle give the key back.
C26_SortKeyPerFolder ==
    [][ /\ LoadPathCalled =>
              /\ config' = config
              /\ sort_by' = IF requested' \in DOMAIN config.folder_sort
                            THEN config.folder_sort[requested']
                            ELSE config.default_sort
              /\ ~IsTrashUri(requested') =>
                    \E q \in Enumerations(fs[requested']) :
                        files' = Listing(requested', q, show_hidden, filter,
                                         config.folders_first, sort_by',
                                         current_icon_size')
        /\ CycleSortHandled =>
              /\ sort_by' = After(sort_by)
              /\ current_path' = current_path
              /\ current_path \in DOMAIN config'.folder_sort
              /\ config'.folder_sort[current_path] = sort_by'
              /\ SameElsewhere(config.folder_sort, config'.folder_sort,
                               current_path)
              /\ inbox' = Append(inbox, RefreshMsg)
              /\ files' = files
        /\ NextSortKey(NextSortKey(NextSortKey(sort_by))) = sort_by ]_vars

\* C26 witness: in d1, whose default key is Date, CycleSort was handled three
\* times, each followed by its refresh: the key is Date again, now as the
\* stored override, and b (time 1, size 1) is listed after a.
C26_Witness ==
    /\ loads = 4
    /\ Settled
    /\ current_path = Dir1
    /\ history = <<>>
    /\ config.default_sort = "Date"
    /\ Dir1 \in DOMAIN config.folder_sort
    /\ config.folder_sort[Dir1] = "Date"
    /\ sort_by = "Date"
    /\ Len(files) = 2

(***************************************************************************)
(* Zoom.                                                                   *)
(***************************************************************************)
\* this step is update() handling a Zoom that changes the size
ZoomHandled == ~LoadPathCalled /\ current_icon_size' # current_icon_size

\* size is the result of moving from by 16 in the direction of delta, kept
\* within 32 and 512
MovedBySixteen(from, delta, size) ==
    LET target == IF delta > 0 THEN from - 16 ELSE from + 16
    IN  /\ size >= 32 /\ size <= 512
        /\ (target >= 32 /\ target <= 512) => size = target
        /\ target < 32 => size = 32
        /\ target > 512 => size = 512

\* C30: the size Zoom computes is the current size moved by 16, down for a
\* positive delta and up otherwise, kept within 32 and 512; a Zoom that
\* changes the size keeps the length, order, names and thumbnails of the
\* listing and sets only icon_size of every entry, stores the size as the
\* override of the current path and of no other, and leaves the session
\* counter, the tasks and the channel alone; a step that does not change the
\* size writes no override.
C30_ZoomResizesOnly ==
    [][ /\ \A d \in ZoomDeltas :
              MovedBySixteen(current_icon_size, d, ZoomSize(current_icon_size, d))
        /\ ZoomHandled =>
              /\ \E d \in ZoomDeltas :
                    MovedBySixteen(current_icon_size, d, current_icon_size')
              /\ DOMAIN files' = DOMAIN files
              /\ \A i \in DOMAIN files :
                    files'[i] = [files[i] EXCEPT !.icon_size = current_icon_size']
              /\ load_id' = load_id
              /\ tasks' = tasks /\ inbox' = inbox /\ cache' = cache
              /\ current_path' = current_path /\ sort_by' = sort_by
              /\ current_path \in DOMAIN config'.folder_icon_size
              /\ config'.folder_icon_size[current_path] = current_icon_size'
              /\ SameElsewhere(config.folder_icon_size, config'.folder_icon_size,
                               current_path)
        /\ current_icon_size' = current_icon_size =>
              config'.folder_icon_size = config.folder_icon_size ]_vars

\* C30 witness: from the configured size 20 a zoom has gone to the lower limit
\* 32, a step of 12, after the thumbnail of x.png was applied: the entry keeps
\* it at the new size, and the session is still the first.
C30_Witness ==
    /\ config.default_icon_size = 20
    /\ current_icon_size = 32
    /\ config.folder_icon_size = [p \in {Dir1} |-> 32]
    /\ load_id = 1
    /\ \E i \in DOMAIN files :
          /\ files[i].thumbnail # None
          /\ files[i].icon_size = 32

\* C30 second witness: at the upper limit, where a zoom up is clamped to the
\* current size, no override has been written while the tasks went on.
C30_WitnessAtLimit ==
    /\ current_icon_size = 512
    /\ config.folder_icon_size = <<>>
    /\ tasks = {}
    /\ inbox = <<>>

(***************************************************************************)
(* History and forward stack.                                              *)
(***************************************************************************)
Accepted(p) == IsDir(p) \/ IsTrashUri(p)

\* this step is update() handling an accepted Navigate: a load that is neither
\* a refresh nor a step back or forward
NavigateHandled == LoadPathCalled /\ ~RefreshHandled /\ trail' = <<>>

\* C28: an accepted Navigate puts the path that was current on top of the
\* history, leaving what was below, and empties the forward stack; no step
\* loads a path that is neither a directory nor a trash URI, so a Navigate to
\* such a path leaves history, forward stack, current_path, listing and
\* session counter as they were.
C28_NavigatePushesAndClears ==
    [][ /\ NavigateHandled =>
              /\ Accepted(requested')
              /\ Len(history') = Len(history) + 1
              /\ history'[Len(history')] = current_path
              /\ SubSeq(history', 1, Len(history)) = history
              /\ forward_stack' = <<>>
        /\ \A p \in NavTargets :
              (~Accepted(p) /\ requested' = p) =>
                  /\ requested = p
                  /\ ~LoadPathCalled
                  /\ <<history', forward_stack', current_path', files', load_id'>>
                        = <<history, forward_stack, current_path, files, load_id>>
      ]_vars

\* C28 witness: from d1 the user went to another place and back, and then to
\* the trash: d1 is the only entry of the history and the forward stack, which
\* held the other place, is empty.
C28_Witness ==
    /\ loads = 4
    /\ trail = <<>>
    /\ requested = TrashUri
    /\ current_path = TrashUri
    /\ history = <<Dir1>>
    /\ forward_stack = <<>>

NavOf(r) == <<r.current_path, r.history, r.forward_stack>>

\* this step is update() handling the messages first and then second, one
\* right after the other
HandledInTurn(first, second) ==
    /\ trail' # trail
    /\ Len(trail') = 2
    /\ trail'[1].msg = first
    /\ trail'[2].msg = second

\* this step is update() handling msg
Handled(msg) == trail' # trail /\ trail' # <<>> /\ trail'[Len(trail')].msg = msg

\* C29: GoBack with a non-empty history followed at once by GoForward leaves
\* current_path, history and forward stack as they were before the GoBack,
\* and so does GoForward with a non-empty forward stack followed by GoBack;
\* GoBack on an empty history and GoForward on an empty forward stack change
\* nothing and call no load.
C29_BackAndForwardAreInverse ==
    [][ /\ (HandledInTurn("GoBack", "GoForward") /\ trail'[1].history # <<>>) =>
              <<current_path', history', forward_stack'>> = NavOf(trail'[1])
        /\ (HandledInTurn("GoForward", "GoBack")
                /\ trail'[1].forward_stack # <<>>) =>
              <<current_path', history', forward_stack'>> = NavOf(trail'[1])
        /\ (Handled("GoBack") /\ history = <<>>) =>
              (UNCHANGED app_vars /\ ~LoadPathCalled)
        /\ (Handled("GoForward") /\ forward_stack = <<>>) =>
              (UNCHANGED app_vars /\ ~LoadPathCalled) ]_vars

\* the paths of the record r that a step back or forward loads can be read
RoundTripReadable(r) ==
    /\ r.current_path \notin Unreadable
    /\ r.history # <<>> => r.history[Len(r.history)] \notin Unreadable
    /\ r.forward_stack # <<>> =>
          r.forward_stack[Len(r.forward_stack)] \notin Unreadable

\* the part of C29 about paths that can be read: it holds
C29_InverseOverReadablePaths ==
    [][ /\ (HandledInTurn("GoBack", "GoForward") /\ trail'[1].history # <<>>
                /\ RoundTripReadable(trail'[1])) =>
              <<current_path', history', forward_stack'>> = NavOf(trail'[1])
        /\ (HandledInTurn("GoForward", "GoBack")
                /\ trail'[1].forward_stack # <<>>
                /\ RoundTripReadable(trail'[1])) =>
              <<current_path', history', forward_stack'>> = NavOf(trail'[1])
        /\ (Handled("GoBack") /\ history = <<>>) =>
              (UNCHANGED app_vars /\ ~LoadPathCalled)
        /\ (Handled("GoForward") /\ forward_stack = <<>>) =>
              (UNCHANGED app_vars /\ ~LoadPathCalled) ]_vars

\* reached: a step back and a step forward over readable paths, with a
\* non-empty forward stack before them
C29_RoundTripDone ==
    /\ Len(trail) = 2
    /\ trail[1].msg = "GoForward" /\ trail[1].forward_stack # <<>>
    /\ trail[2].msg = "GoBack"
    /\ RoundTripReadable(trail[1])

(***************************************************************************)
(* Completion order.                                                       *)
(***************************************************************************)
\* the generation for the entry called n has returned an image
HasResult(n) ==
    \E t \in tasks : t.name = n /\ t.st = "done" /\ t.res # None

\* the entry called n shows a thumbnail
Shown(n) == \E i \in DOMAIN files : files[i].name = n /\ files[i].thumbnail # None

\* the future of the entry called n has ended
Ended(n) == \A t \in tasks : t.name # n

\* C21: while the generation dispatched first never returns, the future of
\* every other entry of the session ends, and every other entry whose
\* generation returns an image comes to show its thumbnail: results are
\* published as the generations complete, not in the order of dispatch.
C21_StuckTaskHoldsNobodyUp ==
    \A n \in StallNames \ {StuckName} :
        /\ <>Ended(n)
        /\ HasResult(n) ~> Shown(n)

\* C21 witness: the entry dispatched last shows its thumbnail while the
\* generation dispatched first is still running and the one dispatched
\* second has not returned either.
C21_Witness ==
    /\ Shown(Str_z_png)
    /\ \E t \in tasks : t.name = StuckName /\ t.idx = 1 /\ t.st = "running"
    /\ \E t \in tasks : t.name = Str_w_png /\ t.idx = 2 /\ t.st = "running"
    /\ Ended(Str_z_png)

(***************************************************************************)
(* Delivery of the results.                                                *)
(***************************************************************************)
\* the generation of the current session for the entry called n has returned
\* the image img
Returned(n, img) ==
    \E t \in tasks :
        /\ t.session = load_id
        /\ t.name = n /\ t.st = "done" /\ t.res = Some(img)

\* the entry called n is listed with the image img as its thumbnail
Displays(n, img) ==
    \E i \in DOMAIN files : files[i].name = n /\ files[i].thumbnail = Some(img)

\* C24: within one session, an entry whose generation has returned an image
\* comes to display that image and keeps it, whatever the number of Zooms
\* that rebuild the listing before and after the result arrives.
C24_ReturnedImageIsDisplayed ==
    \A n \in {Str_x_png, Str_y_png} :
        Returned(n, Texture(Join(Dir1, n))) ~>
            [] Displays(n, Texture(Join(Dir1, n)))

\* C24 witness: the image of x.png is displayed at a size other than the one
\* its listing was published with, while its ThumbnailReady had been sent
\* before the last Zoom.
C24_Witness ==
    /\ Displays(Str_x_png, Texture(Join(Dir1, Str_x_png)))
    /\ current_icon_size # DefaultIconSize
    /\ \A i \in DOMAIN files : files[i].icon_size = current_icon_size
    /\ tasks = {}
    /\ inbox = <<>>

\* reached: a result waits in the channel while the listing has been rebuilt
\* by Zoom
C24_ZoomedInFlight ==
    /\ HeadIsThumbnailReady
    /\ current_icon_size # DefaultIconSize
    /\ \E t \in tasks : t.st = "running"

(***************************************************************************)
(* Idle.                                                                   *)
(***************************************************************************)
\* no task is alive and no result waits in the channel
Idle == tasks = {} /\ inbox = <<>>

\* this step is the program's own work: a step of a task or the handling of a
\* message the program sent to itself, not a Navigate
OwnWork == ~LoadPathCalled \/ RefreshHandled

\* C23: without a user request and without a change made to the directory
\* from outside, the program's own work, cache writes included, never puts a
\* Refresh into the channel and never calls load_path, so that the session
\* that the navigation started is the last one and Idle, once reached, stays.
C23_OwnWorkStartsNoSession ==
    [][ OwnWork =>
            /\ PendingRefreshes' <= PendingRefreshes
            /\ ~LoadPathCalled
            /\ load_id' = load_id
            /\ Idle => Idle' ]_vars

\* the part of C23 about every directory but the thumbnail directory: while
\* the subscription is not on the thumbnail directory, a step of a task sends
\* no Refresh and leaves the session counter alone; it holds
C23_QuietOutsideThumbnailDirectory ==
    [][ (~LoadPathCalled /\ directory_monitor # Some(CacheDir)) =>
            /\ PendingRefreshes' <= PendingRefreshes
            /\ load_id' = load_id ]_vars

\* reached: the thumbnail directory is displayed for the second time, by the
\* refresh that the program's own cache write caused, and lists the thumbnail
\* of a thumbnail
C23_ThumbnailOfThumbnail ==
    /\ loads = 3
    /\ current_path = CacheDir
    /\ Len(files) = 2
    /\ \E t \in tasks : t.session = load_id /\ t.path[1] = CacheDir

(***************************************************************************)
(* Concurrent calls for one path.                                          *)
(***************************************************************************)
\* no call is between its look at the cache and its return
NoCallInProgress == \A t \in tasks : t.st \notin {"running", "decoded", "saving"}

\* what a call for abs_path returns and leaves in the cache when it runs alone
\* and nothing fails
AloneResult(abs_path) == Some(Texture(abs_path))

\* C22: whatever the interleaving of the calls of two tasks for one canonical
\* path, a task of the current session gets from its call what it would get
\* alone, and once no call is in progress the cache file holds what a single
\* run leaves.
C22_ConcurrentCallsAsIfAlone ==
    /\ \A t \in tasks :
          (t.session = load_id /\ t.st = "done") => t.res = AloneResult(t.path)
    /\ NoCallInProgress =>
          \A q \in DOMAIN cache : cache[q] = AloneResult(q)

\* the part of C22 about the file: once no call is in progress it holds what
\* a single run leaves; it holds
C22_FinalFileAsIfAlone ==
    NoCallInProgress => \A q \in DOMAIN cache : cache[q] = AloneResult(q)

\* reached: two calls for one path were both writing the file, and both have
\* returned
C22_BothWrote ==
    /\ NoCallInProgress
    /\ Cardinality({t \in tasks : t.st = "done" /\ t.res # None}) = 2
    /\ DOMAIN cache = {Join(Dir1, Str_x_png)}

====
